---- MODULE Spec2Model ----
(***************************************************************************)
(* Model of bblearntools/blackjax.py: the text pipeline blackjaxify and    *)
(* the functions it is made of, and of bblearntools/bbtextquiz.py: the     *)
(* decimal separator option and the builders of question fields.           *)
(*                                                                         *)
(* A text is a sequence of characters.  Each character is a one-character  *)
(* string, except for a few chunks that stand for a fixed run of ordinary  *)
(* characters which contains no backslash, dollar, bracket, parenthesis,   *)
(* space or newline ("begin{equation}", "&nbsp;", the pieces of the script *)
(* tag, ...).  The regular expressions of the source only ever look at the *)
(* characters that are kept separate, so a chunk behaves as its characters *)
(* do.                                                                     *)
(***************************************************************************)
EXTENDS Integers, Sequences, FiniteSets, TLC

VARIABLES call, input, script, script_url, escape_brackets, text, before, pc, result,
          previous, applied,
          options, last_sep, qpc, qcall, qargs, qlocal, outcome, record, calls

(* blackjax.py: one call, its arguments, its local text and its outcome;   *)
(* previous is the text returned by the application before this one and    *)
(* applied the number of applications that returned                       *)
bvars == <<call, input, script, script_url, escape_brackets, text, before, pc, result,
           previous, applied>>

(* bbtextquiz.py: the global options, and one call of a function of the    *)
(* module: its name, arguments, locals, position and outcome; last_sep is  *)
(* the argument of the last set_decimal_separator call that returned, calls *)
(* the number of calls made                                                *)
qvars == <<options, last_sep, qpc, qcall, qargs, qlocal, outcome, record, calls>>

vars == <<bvars, qvars>>

----------------------------------------------------------------------------
(* Characters and markers                                                  *)

BS == "\\"
DOLLAR == "$"
SPACE == " "
NEWLINE == "\n"
NBSP == "&nbsp;"

(* blackjax.py:118  _MATHJAX_URL, one chunk *)
MATHJAX_URL == <<"https://cdn.jsdelivr.net/npm/mathjax@2/MathJax.js?config=TeX-AMS_CHTML">>

(* blackjax.py:119-122  _DELIMITERS, as (opening, closing) pairs *)
DELIMITERS ==
  << << <<BS, "(">>, <<BS, ")">> >>,
     << <<BS, "begin{equation}">>, <<BS, "end{equation}">> >>,
     << <<BS, "begin{align}">>, <<BS, "end{align}">> >> >>

(* the value of a call that raised: no text is returned *)
NoText == <<"<no text>">>

----------------------------------------------------------------------------
(* Regular expression matching on sequences                                *)

(* the literal pat occurs in s at position i *)
MatchAt(s, i, pat) ==
  /\ i >= 1
  /\ i + Len(pat) - 1 <= Len(s)
  /\ \A k \in 1..Len(pat) : s[i + k - 1] = pat[k]

(* the least position j >= from where pat occurs in s, 0 when there is none *)
FirstAt(s, from, pat) ==
  LET c == {j \in from..Len(s) : MatchAt(s, j, pat)}
  IN  IF c = {} THEN 0 ELSE CHOOSE j \in c : \A k \in c : j <= k

(* str.replace(old, new) for a one-character old *)
RECURSIVE str_replace(_, _, _)
str_replace(s, old, new) ==
  IF s = <<>> THEN <<>>
  ELSE (IF Head(s) = old THEN new ELSE <<Head(s)>>) \o str_replace(Tail(s), old, new)

----------------------------------------------------------------------------
(* the script line put after the text instead of before it *)
insert_mathjax_script_after(t, url) ==
  t \o <<"<script", SPACE, "type='text/javascript'", SPACE, "async", SPACE, "src='">>
    \o url \o <<"'></script>", NEWLINE>>

(* the script line put only when the text does not start with it already *)
insert_mathjax_script_if_absent(t, url) ==
  LET line == <<"<script", SPACE, "type='text/javascript'", SPACE, "async", SPACE, "src='">>
                \o url \o <<"'></script>", NEWLINE>>
  IN  IF MatchAt(t, 1, line) THEN t ELSE line \o t

(* blackjax.py:145-155 *)
insert_mathjax_script(t, url) ==
  <<"<script", SPACE, "type='text/javascript'", SPACE, "async", SPACE, "src='">>
    \o url \o <<"'></script>", NEWLINE>> \o t

(* str.replace given count=1: only the first bracket is escaped *)
escape_first_opening_bracket(t) ==
  LET i == FirstAt(t, 1, <<"[">>)
  IN  IF i = 0 THEN t
      ELSE SubSeq(t, 1, i - 1) \o <<BS, "[">> \o SubSeq(t, i + 1, Len(t))

(* blackjax.py:157-168 *)
escape_opening_brackets(t) == str_replace(t, "[", <<BS, "[">>)

(* blackjax.py:186-191: re.sub of (opening.*?closing) with DOTALL, every   *)
(* match rewritten by replacing before with after; scanning resumes after  *)
(* the match                                                               *)
RECURSIVE replace_inside_from(_, _, _, _, _, _)
replace_inside_from(s, i, opening, closing, bef, aft) ==
  IF i > Len(s) THEN <<>>
  ELSE LET j == IF MatchAt(s, i, opening)
                 THEN FirstAt(s, i + Len(opening), closing) ELSE 0
       IN  IF j # 0
           THEN str_replace(SubSeq(s, i, j + Len(closing) - 1), bef, <<aft>>)
                  \o replace_inside_from(s, j + Len(closing), opening, closing, bef, aft)
           ELSE <<s[i]>> \o replace_inside_from(s, i + 1, opening, closing, bef, aft)

(* the pattern written greedy, (opening.*closing): a span runs to the last *)
(* closing marker of the text                                              *)
replace_inside_greedy(s, opening, closing, bef, aft) ==
  LET i == FirstAt(s, 1, opening)
      c == IF i = 0 THEN {}
           ELSE {j \in (i + Len(opening))..Len(s) : MatchAt(s, j, closing)}
  IN  IF c = {} THEN s
      ELSE LET j == CHOOSE j \in c : \A k \in c : k <= j
           IN  SubSeq(s, 1, i - 1)
                 \o str_replace(SubSeq(s, i, j + Len(closing) - 1), bef, <<aft>>)
                 \o SubSeq(s, j + Len(closing), Len(s))

replace_inside(s, opening, closing, bef, aft) ==
  replace_inside_from(s, 1, opening, closing, bef, aft)

(* the guard written with re.match: only the start of the text is looked at *)
escaped_dollar_match(t) == MatchAt(t, 1, <<BS, DOLLAR>>)

(* the guard made to reject as well a text that holds the script line     *)
(* twice                                                                   *)
escaped_dollar_or_second_script(t) ==
  \/ \E i \in 1..Len(t) : MatchAt(t, i, <<BS, DOLLAR>>)
  \/ \E i, j \in 1..Len(t) : i < j /\ t[i] = "<script" /\ t[j] = "<script"

(* the guard written with the pattern "\$": any dollar counts *)
any_dollar_search(t) == \E i \in 1..Len(t) : t[i] = DOLLAR

(* blackjax.py:227: re.search(r"\\\$", text) != None *)
escaped_dollar_search(t) ==
  \E i \in 1..Len(t) : MatchAt(t, i, <<BS, DOLLAR>>)

(* blackjax.py:229-230: re.sub(r"\${2}(.+?)\${2}", ..., flags=re.DOTALL) *)
RECURSIVE sub_display(_, _)
sub_display(s, i) ==
  IF i > Len(s) THEN <<>>
  ELSE LET j == IF MatchAt(s, i, <<DOLLAR, DOLLAR>>)
                 THEN FirstAt(s, i + 3, <<DOLLAR, DOLLAR>>) ELSE 0
       IN  IF j # 0
           THEN <<BS, "begin{equation}">> \o SubSeq(s, i + 2, j - 1)
                  \o <<BS, "end{equation}">> \o sub_display(s, j + 2)
           ELSE <<s[i]>> \o sub_display(s, i + 1)

(* the inline pass given count=1: only the first span is rewritten *)
sub_inline_once(s, i) ==
  LET j == FirstAt(s, 1, <<DOLLAR>>)
      k == IF j = 0 THEN 0 ELSE FirstAt(s, j + 2, <<DOLLAR>>)
  IN  IF k = 0 THEN s
      ELSE SubSeq(s, 1, j - 1) \o <<BS, "(">> \o SubSeq(s, j + 1, k - 1) \o <<BS, ")">>
             \o SubSeq(s, k + 1, Len(s))

(* blackjax.py:231: re.sub(r"\${1}(.+?)\${1}", r"\(\1\)", flags=re.DOTALL) *)
RECURSIVE sub_inline(_, _)
sub_inline(s, i) ==
  IF i > Len(s) THEN <<>>
  ELSE LET j == IF MatchAt(s, i, <<DOLLAR>>)
                 THEN FirstAt(s, i + 2, <<DOLLAR>>) ELSE 0
       IN  IF j # 0
           THEN <<BS, "(">> \o SubSeq(s, i + 1, j - 1) \o <<BS, ")">>
                  \o sub_inline(s, j + 1)
           ELSE <<s[i]>> \o sub_inline(s, i + 1)

(* the two passes in the other order: inline first, display second *)
fix_latex_delimiters_inline_first(t) == sub_display(sub_inline(t, 1), 1)

(* blackjax.py:229-232: the text fix_latex_delimiters returns when the     *)
(* guard of line 227 did not raise                                         *)
fix_latex_delimiters(t) == sub_inline(sub_display(t, 1), 1)

RECURSIVE remove_spaces_loop(_, _)

(* the loop without its second call: newlines are left alone *)
remove_spaces_loop_spaces_only(t, k) ==
  IF k > Len(DELIMITERS) THEN t
  ELSE remove_spaces_loop(
         replace_inside(t, DELIMITERS[k][1], DELIMITERS[k][2], SPACE, NBSP), k + 1)

(* blackjax.py:261-264: for each pair, the space pass then the newline pass *)
remove_spaces_loop(t, k) ==
  IF k > Len(DELIMITERS) THEN t
  ELSE LET opening == DELIMITERS[k][1]
           closing == DELIMITERS[k][2]
           t1 == replace_inside(t, opening, closing, SPACE, NBSP)
           t2 == replace_inside(t1, opening, closing, NEWLINE, NBSP)
       IN  remove_spaces_loop(t2, k + 1)

remove_spaces_in_latex(t) == remove_spaces_loop(t, 1)

(* blackjax.py:127-143: the whole call, NoText when the guard raises *)
blackjaxify(t, scr, url, esc) ==
  LET t1 == IF scr THEN insert_mathjax_script(t, url) ELSE t
  IN  IF escaped_dollar_search(t1) THEN NoText
      ELSE LET t2 == fix_latex_delimiters(t1)
               t3 == IF esc THEN escape_opening_brackets(t2) ELSE t2
           IN  remove_spaces_in_latex(t3)

----------------------------------------------------------------------------
(* Inputs                                                                  *)

MaxLen == 4
MaxDollarLen == 11
MaxPieces == 4
MaxApplications == 2

SeqsUpTo(S, n) == UNION {[1..m -> S] : m \in 0..n}

RECURSIVE Flatten(_)
Flatten(ss) == IF ss = <<>> THEN <<>> ELSE Head(ss) \o Flatten(Tail(ss))

(* texts over the characters the pipeline treats specially *)
GeneralTexts == SeqsUpTo({BS, DOLLAR, "[", SPACE, "a"}, MaxLen)

(* texts of dollars and ordinary characters *)
DollarTexts == SeqsUpTo({DOLLAR, "a"}, MaxDollarLen)

(* texts made of delimiter markers, spaces and newlines *)
Pieces ==
  {DELIMITERS[k][1] : k \in 1..Len(DELIMITERS)}
    \cup {DELIMITERS[k][2] : k \in 1..Len(DELIMITERS)}
    \cup {<<SPACE>>, <<NEWLINE>>}
SpanTexts == {Flatten(ps) : ps \in SeqsUpTo(Pieces, MaxPieces)}

(* the examples of the docstrings, blackjax.py:179, 203, 206, 211, 248, 256 *)
DocTexts ==
  { <<BS, "[", SPACE, "L", "[", "1", "]", SPACE, "=", SPACE, "2", SPACE, BS, "]">>,
    <<DOLLAR, "1+1=2", DOLLAR, ".">>,
    <<DOLLAR, DOLLAR, "1+1=2", DOLLAR, DOLLAR>>,
    <<"Price:", SPACE, "2", BS, DOLLAR, ".", SPACE, "But", SPACE, DOLLAR, "2+2=4", DOLLAR, ".">>,
    <<BS, "(", "1", SPACE, "+", SPACE, "1", SPACE, "=", SPACE, "2", BS, ")">>,
    <<BS, "(", "f", "(", "x", ")", SPACE, "=", SPACE, "1", SPACE, BS, "text{", SPACE, "if", SPACE,
      BS, "(", "x", SPACE, ">", SPACE, "0", BS, ")", ",", SPACE, "otherwise", SPACE, "}", "0.", BS, ")">> }

(* texts with spans of the three kinds of _DELIMITERS, over several lines *)
MixedTexts ==
  { <<BS, "(", SPACE, BS, ")", SPACE, BS, "begin{equation}", NEWLINE, SPACE, BS, "end{equation}", NEWLINE,
      BS, "begin{align}", SPACE, NEWLINE, BS, "end{align}", SPACE>>,
    <<BS, "begin{align}", SPACE, BS, "(", NEWLINE, BS, "end{align}", SPACE, BS, "begin{equation}",
      NEWLINE, BS, ")", SPACE, BS, "end{equation}", NEWLINE>> }

(* a text with brackets in a <pre> region, in math and in plain text,      *)
(* blackjax.py:159-163                                                     *)
PreTexts ==
  { <<"<pre>", "L", "[", "1", "]", "</pre>", SPACE, DOLLAR, "x", "[", "2", "]", SPACE, DOLLAR, "[">> }

Urls == {MATHJAX_URL, <<"a", DOLLAR>>, <<BS, DOLLAR>>}

----------------------------------------------------------------------------
(* bbtextquiz.py                                                           *)

NoArgs == [name |-> "none"]

(* bbtextquiz.py:84: the module is loaded, nothing has been called *)
QuizLoaded ==
  /\ options = ","
  /\ last_sep = ","
  /\ qpc = "idle"
  /\ qcall = "none"
  /\ qargs = NoArgs
  /\ qlocal = <<>>
  /\ outcome = "none"
  /\ record = <<>>
  /\ calls = 0

----------------------------------------------------------------------------
(* The calls                                                               *)

Init ==
  /\ call \in {"blackjaxify", "fix_latex_delimiters", "remove_spaces_in_latex"}
  /\ \/ /\ call = "blackjaxify"
        /\ input \in GeneralTexts \cup DocTexts \cup MixedTexts \cup PreTexts
        /\ script \in BOOLEAN
        /\ script_url \in (IF script THEN Urls ELSE {MATHJAX_URL})
        /\ escape_brackets \in BOOLEAN
     \/ /\ call = "fix_latex_delimiters"
        /\ input \in DollarTexts \cup DocTexts
        /\ script = FALSE /\ script_url = MATHJAX_URL /\ escape_brackets = FALSE
     \/ /\ call = "remove_spaces_in_latex"
        /\ input \in SpanTexts \cup DocTexts \cup MixedTexts
        /\ script = FALSE /\ script_url = MATHJAX_URL /\ escape_brackets = FALSE
  /\ text = input
  /\ before = input
  /\ pc = "start"
  /\ result = NoText
  /\ previous = NoText
  /\ applied = 0
  /\ QuizLoaded

(* blackjax.py:137-138 *)
InsertScript ==
  /\ call = "blackjaxify" /\ pc = "start"
  /\ text' = IF script THEN insert_mathjax_script(text, script_url) ELSE text
  /\ before' = text
  /\ pc' = "inserted"
  /\ UNCHANGED <<call, input, script, script_url, escape_brackets, result>>
  /\ UNCHANGED <<previous, applied, qvars>>

AtFix ==
  \/ call = "blackjaxify" /\ pc = "inserted"
  \/ call = "fix_latex_delimiters" /\ pc = "start"

(* blackjax.py:227-228: the guard raises, the call is over *)
FixRaise ==
  /\ AtFix
  /\ escaped_dollar_search(text)
  /\ pc' = "raised"
  /\ UNCHANGED <<call, input, script, script_url, escape_brackets, text, before, result>>
  /\ UNCHANGED <<previous, applied, qvars>>

(* blackjax.py:139, 229-232 *)
FixReturn ==
  /\ AtFix
  /\ ~escaped_dollar_search(text)
  /\ text' = fix_latex_delimiters(text)
  /\ before' = text
  /\ IF call = "blackjaxify"
     THEN pc' = "fixed" /\ result' = result
     ELSE pc' = "returned" /\ result' = text'
  /\ UNCHANGED <<call, input, script, script_url, escape_brackets>>
  /\ UNCHANGED <<previous, applied, qvars>>

(* blackjax.py:140-141 *)
EscapeBrackets ==
  /\ call = "blackjaxify" /\ pc = "fixed"
  /\ text' = IF escape_brackets THEN escape_opening_brackets(text) ELSE text
  /\ before' = text
  /\ pc' = "escaped"
  /\ UNCHANGED <<call, input, script, script_url, escape_brackets, result>>
  /\ UNCHANGED <<previous, applied, qvars>>

(* blackjax.py:142-143, 261-264 *)
RemoveSpaces ==
  /\ \/ call = "blackjaxify" /\ pc = "escaped"
     \/ call = "remove_spaces_in_latex" /\ pc = "start"
  /\ text' = remove_spaces_in_latex(text)
  /\ before' = text
  /\ result' = text'
  /\ pc' = "returned"
  /\ UNCHANGED <<call, input, script, script_url, escape_brackets>>
  /\ UNCHANGED <<previous, applied, qvars>>

(* blackjax.py:127: blackjaxify called again, on the text it returned, with *)
(* the same configuration; the calls followed are those with script on    *)
(* and the default script_url, whose text starts with the default script   *)
(* line                                                                    *)
Reapply ==
  /\ call = "blackjaxify" /\ pc = "returned"
  /\ script /\ script_url = MATHJAX_URL
  /\ applied + 1 < MaxApplications
  /\ applied' = applied + 1
  /\ previous' = result
  /\ input' = result
  /\ text' = result
  /\ before' = result
  /\ result' = NoText
  /\ pc' = "start"
  /\ UNCHANGED <<call, script, script_url, escape_brackets, qvars>>

Next ==
  InsertScript \/ FixRaise \/ FixReturn \/ EscapeBrackets \/ RemoveSpaces \/ Reapply

Spec == Init /\ [][Next]_vars

TypeOK ==
  /\ pc \in {"start", "inserted", "fixed", "escaped", "returned", "raised"}
  /\ pc # "returned" => result = NoText
  /\ (call = "blackjaxify" /\ pc \in {"returned", "raised"})
       => result = blackjaxify(input, script, script_url, escape_brackets)

----------------------------------------------------------------------------
(* bbtextquiz.py: the functions                                            *)

(* a formatting that keeps the text as it is when the engine fails *)
_format_string_lenient(str, scr) ==
  LET r == blackjaxify(str, scr, MATHJAX_URL, FALSE)
  IN  str_replace(IF r = NoText THEN str ELSE r, NEWLINE, <<SPACE>>)

(* bbtextquiz.py:117-126; NoText when blackjaxify raises *)
_format_string(str, scr) ==
  LET r == blackjaxify(str, scr, MATHJAX_URL, FALSE)
  IN  IF r = NoText THEN NoText ELSE str_replace(r, NEWLINE, <<SPACE>>)

(* a number is the digits python writes for it: an int has no fractional  *)
(* part, a float has a point and at least one digit after it               *)
IntNumber(w) == [whole |-> w, frac |-> <<>>, float |-> FALSE]
FloatNumber(w, f) == [whole |-> w, frac |-> f, float |-> TRUE]

(* str(x) for an int or a float written without exponent *)
str_number(x) == IF x.float THEN x.whole \o <<".">> \o x.frac ELSE x.whole

(* str(b) for a bool *)
str_bool(b) == IF b THEN <<"True">> ELSE <<"False">>

(* a separator fix that leaves the point whatever the option says *)
_fix_decimal_separator_never(x, sep) == str_number(x)

(* bbtextquiz.py:128-152; sep is options['decimal separator'] *)
_fix_decimal_separator(x, sep) ==
  IF sep = "," THEN str_replace(str_number(x), ".", <<",">>) ELSE str_number(x)

(* bbtextquiz.py:212-214, 241-243: [s, "correct" or "incorrect", ...] *)
RECURSIVE answer_fields(_, _)
answer_fields(formatted, answers) ==
  IF formatted = <<>> THEN <<>>
  ELSE <<Head(formatted), IF Head(answers)[2] THEN <<"correct">> ELSE <<"incorrect">>>>
         \o answer_fields(Tail(formatted), Tail(answers))

(* bbtextquiz.py:235-238: the two tests of fields_MC on the truth marks *)
one_true_answer(answers) ==
  /\ Cardinality({i \in 1..Len(answers) : answers[i][2]}) = 1
  /\ Cardinality({i \in 1..Len(answers) : ~answers[i][2]}) = Len(answers) - 1

(* the list a builder returns, from its arguments and the strings it      *)
(* formatted: loc[1] is the question, the others follow in order           *)
fields(name, args, loc) ==
  CASE name = "fields_NUM" -> <<<<"NUM">>, loc[1], loc[2], loc[3]>>
    [] name = "fields_MA"  -> <<<<"MA">>, loc[1]>> \o answer_fields(Tail(loc), args.answers)
    [] name = "fields_MC"  -> <<<<"MC">>, loc[1]>> \o answer_fields(Tail(loc), args.answers)
    [] name = "fields_TF"  -> <<<<"TF">>, loc[1], str_bool(args.ans)>>
    [] name = "fields_ESS" -> <<<<"ESS">>, loc[1], loc[2]>>
    [] name = "fields_SR"  -> <<<<"SR">>, loc[1], loc[2]>>
    [] name = "fields_FIL" -> <<<<"FIL">>, loc[1]>>

(* Bounds and arguments of the calls *)
MaxCalls == 3
MaxAnswers == 2

QuizTexts == {<<"a">>, <<DOLLAR, "x", SPACE, DOLLAR>>, <<"2", BS, DOLLAR>>, <<"a", NEWLINE, "b">>}
AnswerTexts == {<<DOLLAR, "x", DOLLAR>>, <<"2", BS, DOLLAR>>}
SampleTexts == QuizTexts \cup {<<>>}
Numbers == {IntNumber(<<"0">>), IntNumber(<<"4", "2">>), FloatNumber(<<"1">>, <<"2", "5">>), FloatNumber(<<"0">>, <<"0", "1">>)}
Separators == {",", ".", ";", ""}
Builders ==
  {"fields_NUM", "fields_MA", "fields_MC", "fields_TF", "fields_ESS", "fields_SR", "fields_FIL"}

ArgsOf(name) ==
  CASE name = "fields_NUM" -> [question : QuizTexts, answer : Numbers, tol : Numbers]
    [] name \in {"fields_MA", "fields_MC"} ->
         [question : QuizTexts, answers : SeqsUpTo(AnswerTexts \X BOOLEAN, MaxAnswers)]
    [] name = "fields_TF" -> [question : QuizTexts, ans : BOOLEAN]
    [] name \in {"fields_ESS", "fields_SR"} -> [question : QuizTexts, sample_ans : SampleTexts]
    [] name = "fields_FIL" -> [question : QuizTexts]

(* The quiz module is loaded; no text is being processed by hand *)
QuizInit ==
  /\ QuizLoaded
  /\ call = "none"
  /\ input = <<>>
  /\ script = TRUE
  /\ script_url = MATHJAX_URL
  /\ escape_brackets = FALSE
  /\ text = <<>>
  /\ before = <<>>
  /\ pc = "start"
  /\ result = NoText
  /\ previous = NoText
  /\ applied = 0

Idle == qpc = "idle" /\ calls < MaxCalls

(* the call ends with an exception *)
Raise(error) ==
  /\ outcome' = error
  /\ qpc' = "idle"
  /\ UNCHANGED <<options, last_sep, qcall, qargs, qlocal, record, calls>>

(* one more string formatted; the position moves to what the builder does *)
(* next                                                                    *)
Formatted(r, then) ==
  /\ qlocal' = Append(qlocal, r)
  /\ qpc' = then
  /\ UNCHANGED <<options, last_sep, qcall, qargs, outcome, record, calls>>

(* bbtextquiz.py:87-112 *)
set_decimal_separator ==
  \E sep \in Separators :
    /\ Idle
    /\ qcall' = "set_decimal_separator"
    /\ qargs' = [sep |-> sep]
    /\ qlocal' = <<>>
    /\ record' = <<>>
    /\ calls' = calls + 1
    /\ qpc' = "idle"
    /\ IF sep \notin {",", "."}
         THEN /\ outcome' = "ValueError"
              /\ UNCHANGED options
         ELSE /\ options' = sep
              /\ outcome' = "returned"
    /\ last_sep' = IF outcome' = "returned" THEN sep ELSE last_sep
    /\ UNCHANGED bvars

(* a builder is called: fields_MC first tests the truth marks, the others *)
(* start with the question                                                 *)
CallBuilder ==
  \E name \in Builders : \E args \in ArgsOf(name) :
    /\ Idle
    /\ qcall' = name
    /\ qargs' = args
    /\ qlocal' = <<>>
    /\ outcome' = "none"
    /\ record' = <<>>
    /\ calls' = calls + 1
    /\ qpc' = IF name = "fields_MC" THEN "check" ELSE "question"
    /\ UNCHANGED <<options, last_sep>>
    /\ UNCHANGED bvars

(* bbtextquiz.py:235-238 *)
CheckAnswers ==
  /\ qpc = "check"
  /\ IF one_true_answer(qargs.answers)
       THEN /\ qpc' = "question"
            /\ UNCHANGED <<options, last_sep, qcall, qargs, qlocal, outcome, record, calls>>
       ELSE Raise("ValueError")
  /\ UNCHANGED bvars

(* bbtextquiz.py:189, 210, 239, 259, 277, 296, 312 *)
FormatQuestion ==
  /\ qpc = "question"
  /\ LET r == _format_string(qargs.question, TRUE)
         then == CASE qcall = "fields_NUM" -> "fix_answer"
                   [] qcall \in {"fields_MA", "fields_MC"} -> "answers"
                   [] qcall \in {"fields_ESS", "fields_SR"} -> "sample"
                   [] OTHER -> "return"
     IN  IF r = NoText THEN Raise("NotImplementedError") ELSE Formatted(r, then)
  /\ UNCHANGED bvars

(* bbtextquiz.py:211, 240: the next answer of the list *)
FormatAnswer ==
  /\ qpc = "answers"
  /\ Len(qlocal) <= Len(qargs.answers)
  /\ LET r == _format_string(qargs.answers[Len(qlocal)][1], FALSE)
     IN  IF r = NoText THEN Raise("NotImplementedError") ELSE Formatted(r, "answers")
  /\ UNCHANGED bvars

(* bbtextquiz.py:278, 297 *)
FormatSample ==
  /\ qpc = "sample"
  /\ LET r == _format_string(qargs.sample_ans, TRUE)
     IN  IF r = NoText THEN Raise("NotImplementedError") ELSE Formatted(r, "return")
  /\ UNCHANGED bvars

(* bbtextquiz.py:190 *)
FixAnswer ==
  /\ qpc = "fix_answer"
  /\ Formatted(_fix_decimal_separator(qargs.answer, options), "fix_tol")
  /\ UNCHANGED bvars

(* bbtextquiz.py:191 *)
FixTol ==
  /\ qpc = "fix_tol"
  /\ Formatted(_fix_decimal_separator(qargs.tol, options), "return")
  /\ UNCHANGED bvars

(* bbtextquiz.py:192, 212-214, 241-243, 260, 279, 298, 313 *)
Return ==
  /\ \/ qpc = "return"
     \/ qpc = "answers" /\ Len(qlocal) > Len(qargs.answers)
  /\ record' = fields(qcall, qargs, qlocal)
  /\ outcome' = "returned"
  /\ qpc' = "idle"
  /\ UNCHANGED <<options, last_sep, qcall, qargs, qlocal, calls>>
  /\ UNCHANGED bvars

QuizNext ==
  \/ set_decimal_separator
  \/ CallBuilder
  \/ CheckAnswers
  \/ FormatQuestion
  \/ FormatAnswer
  \/ FormatSample
  \/ FixAnswer
  \/ FixTol
  \/ Return

QuizSpec == QuizInit /\ [][QuizNext]_vars

QuizTypeOK ==
  /\ options \in {",", "."}
  /\ qpc \in {"idle", "check", "question", "answers", "sample", "fix_answer", "fix_tol", "return"}
  /\ qcall \in Builders \cup {"none", "set_decimal_separator"}
  /\ outcome \in {"none", "returned", "ValueError", "NotImplementedError"}
  /\ calls \in 0..MaxCalls
  /\ outcome # "returned" => record = <<>>

----------------------------------------------------------------------------
(* Vocabulary of the properties                                            *)

CountOf(s, c) == Cardinality({i \in 1..Len(s) : s[i] = c})

(* a backslash immediately followed by a dollar *)
ContainsEscapedDollar(s) ==
  \E i \in 1..(Len(s) - 1) : s[i] = BS /\ s[i + 1] = DOLLAR

Running == pc \in {"start", "inserted", "fixed", "escaped"}

----------------------------------------------------------------------------
(* C1: a text with an escaped dollar anywhere makes blackjaxify (and      *)
(* fix_latex_delimiters) raise, whatever script, script_url and            *)
(* escape_brackets are: the call never gets past the guard, the guard is   *)
(* the branch taken, and no text is returned.                              *)
C1_EscapedDollarRaises ==
  (call \in {"blackjaxify", "fix_latex_delimiters"} /\ ContainsEscapedDollar(input))
    => /\ pc \in {"start", "inserted", "raised"}
       /\ result = NoText
       /\ AtFix => escaped_dollar_search(text)

C1_Witness ==
  /\ call = "blackjaxify" /\ pc = "raised"
  /\ script /\ escape_brackets
  /\ ContainsEscapedDollar(input) /\ input[1] # BS /\ CountOf(input, DOLLAR) = 1

(* C2 as stated: without an escaped dollar in the text, blackjaxify never  *)
(* raises, whatever script_url is.                                         *)
C2_AnyUrlCompletes ==
  (call = "blackjaxify" /\ ~ContainsEscapedDollar(input)) => pc # "raised"

(* C2 amended: without an escaped dollar in the text, and with script off  *)
(* or a script_url that holds no escaped dollar, blackjaxify never raises: *)
(* the guard passes, and the call returns a text, also for unbalanced,     *)
(* empty or nested delimiters.                                             *)
C2_CleanTextCompletes ==
  (/\ call = "blackjaxify"
   /\ ~ContainsEscapedDollar(input)
   /\ script => ~ContainsEscapedDollar(script_url))
    => /\ pc # "raised"
       /\ AtFix => ~escaped_dollar_search(text)
       /\ pc = "returned" => result # NoText

C2_Witness ==
  /\ call = "blackjaxify" /\ pc = "returned"
  /\ script /\ script_url # MATHJAX_URL
  /\ CountOf(input, DOLLAR) = 3
  /\ result # NoText

----------------------------------------------------------------------------
(* The left-to-right reading of dollar spans                               *)

(* the least position j >= from of a dollar in s, 0 when there is none *)
NextDollar(s, from) ==
  IF \E j \in from..Len(s) : s[j] = DOLLAR
  THEN CHOOSE j \in from..Len(s) : s[j] = DOLLAR /\ \A k \in from..(j - 1) : s[k] # DOLLAR
  ELSE 0

(* from position i on, the dollars of s split into spans $$X$$ (opened     *)
(* where two dollars are adjacent) and, when inl, $X$ (opened by a single  *)
(* dollar), every X non-empty and free of dollars                          *)
RECURSIVE SplitsIntoSpans(_, _, _)
SplitsIntoSpans(s, i, inl) ==
  IF i > Len(s) THEN TRUE
  ELSE IF s[i] # DOLLAR THEN SplitsIntoSpans(s, i + 1, inl)
  ELSE IF i + 1 <= Len(s) /\ s[i + 1] = DOLLAR
  THEN LET j == NextDollar(s, i + 2)
       IN  /\ j > i + 2
           /\ j + 1 <= Len(s)
           /\ s[j + 1] = DOLLAR
           /\ SplitsIntoSpans(s, j + 2, inl)
  ELSE LET j == NextDollar(s, i + 1)
       IN  inl /\ j > i + 1 /\ SplitsIntoSpans(s, j + 1, inl)

(* what the reference scanner writes for a text that splits into spans *)
RECURSIVE Scanned(_, _)
Scanned(s, i) ==
  IF i > Len(s) THEN <<>>
  ELSE IF s[i] # DOLLAR THEN <<s[i]>> \o Scanned(s, i + 1)
  ELSE IF i + 1 <= Len(s) /\ s[i + 1] = DOLLAR
  THEN LET j == NextDollar(s, i + 2)
       IN  <<BS, "begin{equation}">> \o SubSeq(s, i + 2, j - 1) \o <<BS, "end{equation}">>
             \o Scanned(s, j + 2)
  ELSE LET j == NextDollar(s, i + 1)
       IN  <<BS, "(">> \o SubSeq(s, i + 1, j - 1) \o <<BS, ")">> \o Scanned(s, j + 1)

(* from position i on, no span of s opens right where another one closed:  *)
(* the character after a closing delimiter is never a dollar               *)
RECURSIVE SpansApart(_, _)
SpansApart(s, i) ==
  IF i > Len(s) THEN TRUE
  ELSE IF s[i] # DOLLAR THEN SpansApart(s, i + 1)
  ELSE LET dbl == i + 1 <= Len(s) /\ s[i + 1] = DOLLAR
           j == NextDollar(s, IF dbl THEN i + 2 ELSE i + 1)
           e == IF dbl THEN j + 2 ELSE j + 1
       IN  (e > Len(s) \/ s[e] # DOLLAR) /\ SpansApart(s, e)

WellFormed(s) == ~ContainsEscapedDollar(s) /\ SplitsIntoSpans(s, 1, TRUE)
WellSeparated(s) == WellFormed(s) /\ SpansApart(s, 1)
DisplayOnly(s) == ~ContainsEscapedDollar(s) /\ SplitsIntoSpans(s, 1, FALSE)

(* the number of places where the two-character marker m occurs in s *)
CountPair(s, m) ==
  Cardinality({i \in 1..(Len(s) - 1) : s[i] = m[1] /\ s[i + 1] = m[2]})

(* fix_latex_delimiters has just returned: before is its argument, text    *)
(* the text it returned                                                    *)
JustFixed ==
  \/ call = "fix_latex_delimiters" /\ pc = "returned"
  \/ call = "blackjaxify" /\ pc = "fixed"

----------------------------------------------------------------------------
(* C3: when every dollar of the text belongs to a span $$X$$ (X non-empty, *)
(* no dollar in X), fix_latex_delimiters turns each span into              *)
(* \begin{equation}X\end{equation}, keeps X and every other character,     *)
(* and makes no new \( or \).                                              *)
C3_DisplayPreferred ==
  (JustFixed /\ DisplayOnly(before))
    => /\ text = Scanned(before, 1)
       /\ CountPair(text, <<BS, "(">>) = CountPair(before, <<BS, "(">>)
       /\ CountPair(text, <<BS, ")">>) = CountPair(before, <<BS, ")">>)

C3_Witness ==
  /\ call = "fix_latex_delimiters" /\ pc = "returned"
  /\ DisplayOnly(input)
  /\ CountOf(input, DOLLAR) = 4
  /\ input[1] # DOLLAR /\ input[Len(input)] # DOLLAR
  /\ result = Scanned(input, 1)
  /\ CountPair(result, <<BS, "begin{equation}">>) = 1

(* C4: on every text whose dollars split, read left to right, into spans   *)
(* $$X$$ and $X$ (X non-empty, no dollar in X; spans may touch),           *)
(* fix_latex_delimiters returns what the reference scanner writes.         *)
C4_AgreesWithScanner ==
  (JustFixed /\ WellFormed(before)) => text = Scanned(before, 1)

----------------------------------------------------------------------------
(* Spans of a delimiter pair, read left to right without overlap           *)

CanonicalPairs ==
  { << <<BS, "(">>, <<BS, ")">> >>,
    << <<BS, "begin{equation}">>, <<BS, "end{equation}">> >>,
    << <<BS, "begin{align}">>, <<BS, "end{align}">> >> }

BracketPair == << <<BS, "[">>, <<BS, "]">> >>

Whitespace == {SPACE, NEWLINE}

MarkerAt(s, i, m) ==
  i + Len(m) - 1 <= Len(s) /\ SubSeq(s, i, i + Len(m) - 1) = m

(* the least position j >= from where the marker m stands, 0 if none *)
NextMarker(s, from, m) ==
  IF \E j \in from..Len(s) : MarkerAt(s, j, m)
  THEN CHOOSE j \in from..Len(s) :
         MarkerAt(s, j, m) /\ \A k \in from..(j - 1) : ~MarkerAt(s, k, m)
  ELSE 0

(* the positions of s, from i on, that lie strictly between an open marker *)
(* and the nearest following close marker of the pair                      *)
RECURSIVE InsideSpans(_, _, _)
InsideSpans(s, i, pair) ==
  IF i > Len(s) THEN {}
  ELSE LET j == IF MarkerAt(s, i, pair[1])
                 THEN NextMarker(s, i + Len(pair[1]), pair[2]) ELSE 0
       IN  IF j # 0
           THEN ((i + Len(pair[1]))..(j - 1)) \cup InsideSpans(s, j + Len(pair[2]), pair)
           ELSE InsideSpans(s, i + 1, pair)

InsideCanonical(s) == UNION {InsideSpans(s, 1, pair) : pair \in CanonicalPairs}

(* remove_spaces_in_latex has just returned: before is its argument, text  *)
(* the text it returned                                                    *)
JustRemoved ==
  /\ pc = "returned"
  /\ call \in {"remove_spaces_in_latex", "blackjaxify"}

----------------------------------------------------------------------------
(* C6: in the text remove_spaces_in_latex returns, for each of the three   *)
(* pairs, no space and no newline is left between an open marker and the   *)
(* nearest following close marker (spans read left to right, no overlap);  *)
(* each space or newline that was there is now exactly one &nbsp;.         *)
C6_NoWhitespaceInSpans ==
  JustRemoved
    => /\ \A pair \in CanonicalPairs :
            \A p \in InsideSpans(text, 1, pair) : text[p] \notin Whitespace
       /\ Len(text) = Len(before)
       /\ \A p \in InsideCanonical(before) :
            before[p] \in Whitespace => text[p] = NBSP

C6_Witness ==
  /\ call = "remove_spaces_in_latex" /\ pc = "returned"
  /\ \A pair \in CanonicalPairs :
       \E p \in InsideSpans(input, 1, pair), q \in InsideSpans(input, 1, pair) :
         input[p] = SPACE /\ input[q] = NEWLINE /\ result[p] = NBSP /\ result[q] = NBSP

(* C7: the text remove_spaces_in_latex returns differs from its argument   *)
(* only where a space or newline inside a matched span became &nbsp;;      *)
(* everything outside the spans, whitespace and markers included, is kept, *)
(* and an open marker without a close marker changes nothing.              *)
C7_OutsideSpansUnchanged ==
  JustRemoved
    => /\ Len(text) = Len(before)
       /\ \A p \in 1..Len(before) :
            text[p] # before[p]
              => /\ p \in InsideCanonical(before)
                 /\ before[p] \in Whitespace
                 /\ text[p] = NBSP

C7_Witness ==
  /\ call = "remove_spaces_in_latex" /\ pc = "returned"
  /\ \E p \in InsideCanonical(input), q \in 1..Len(input) :
       /\ q \notin InsideCanonical(input)
       /\ p < q /\ q < Len(input)
       /\ input[p] = SPACE /\ result[p] = NBSP
       /\ input[q] = SPACE /\ result[q] = SPACE
       /\ input[q + 1] = "otherwise"

(* C8: in the text blackjaxify returns, every space and newline that stood *)
(* between \[ and the nearest following \] of the input is &nbsp; (stated  *)
(* for script off, escape_brackets off and a text without dollars, where   *)
(* positions of the input and of the output correspond).                   *)
C8_BracketSpansRewritten ==
  (/\ call = "blackjaxify" /\ pc = "returned"
   /\ ~script /\ ~escape_brackets
   /\ CountOf(input, DOLLAR) = 0)
    => \A p \in InsideSpans(input, 1, BracketPair) :
         input[p] \in Whitespace => result[p] = NBSP

----------------------------------------------------------------------------
(* the script line for the default url *)
DefaultTagLine ==
  <<"<script", " ", "type='text/javascript'", " ", "async", " ", "src='",
    "https://cdn.jsdelivr.net/npm/mathjax@2/MathJax.js?config=TeX-AMS_CHTML",
    "'></script>", "\n">>

(* C9: with the default script_url and a text that does not raise,         *)
(* blackjaxify with script on returns the script line, a newline, and then *)
(* exactly what blackjaxify with script off returns for the same text and  *)
(* the same escape_brackets; with script off nothing is put in front.      *)
C9_ScriptLineFirstAndApart ==
  (call = "blackjaxify" /\ pc = "returned" /\ script_url = MATHJAX_URL)
    => IF script
       THEN result = DefaultTagLine \o blackjaxify(input, FALSE, script_url, escape_brackets)
       ELSE /\ result = blackjaxify(input, FALSE, script_url, escape_brackets)
            /\ CountOf(result, "<script") = 0

C9_Witness ==
  /\ call = "blackjaxify" /\ pc = "returned"
  /\ script /\ script_url = MATHJAX_URL /\ escape_brackets
  /\ CountOf(input, DOLLAR) = 2 /\ CountOf(input, "[") = 1 /\ CountOf(input, SPACE) = 1
  /\ CountOf(result, NBSP) = 1
  /\ SubSeq(result, 1, Len(DefaultTagLine)) = DefaultTagLine

(* txt is prev with a backslash put before every opening bracket and       *)
(* nothing else changed                                                    *)
BracketsEscaped(prev, txt) ==
  /\ Len(txt) = Len(prev) + CountOf(prev, "[")
  /\ \A p \in 1..Len(prev) :
       LET k == Cardinality({q \in 1..p : prev[q] = "["})
       IN  /\ txt[p + k] = prev[p]
           /\ prev[p] = "[" => txt[p + k - 1] = BS

----------------------------------------------------------------------------
(* this application of blackjaxify is on the text an earlier one returned, *)
(* with script on and the default script_url                               *)
AppliedAgain ==
  /\ call = "blackjaxify" /\ applied >= 1
  /\ script /\ script_url = MATHJAX_URL

(* C11: blackjaxify applied to its own output (script on, default url)     *)
(* never returns that output again: the text returned the second time      *)
(* differs from the first one and holds one more script line.              *)
C11_NotIdempotent ==
  (AppliedAgain /\ pc = "returned")
    => /\ result # previous
       /\ CountOf(result, "<script") = CountOf(previous, "<script") + 1

C11_Witness ==
  /\ AppliedAgain /\ pc = "returned" /\ ~escape_brackets
  /\ CountOf(previous, NBSP) = 1
  /\ CountPair(previous, <<BS, "(">>) = 1
  /\ CountOf(result, "<script") = 2
  /\ result # previous

(* C12 as stated: blackjaxify called on its own output (script on, default *)
(* url) never returns a text.                                              *)
C12_SecondApplicationRejected ==
  AppliedAgain => pc # "returned"

(* C12 amended: blackjaxify called on its own output (script on, default   *)
(* url) is not rejected: the guard passes, nothing is raised, and the text *)
(* returned starts with the script line twice.                             *)
C12_SecondApplicationReturns ==
  AppliedAgain
    => /\ pc # "raised"
       /\ AtFix => ~escaped_dollar_search(text)
       /\ pc = "returned"
            => /\ result # NoText
               /\ SubSeq(result, 1, 2 * Len(DefaultTagLine)) = DefaultTagLine \o DefaultTagLine

C12_Witness ==
  /\ AppliedAgain /\ pc = "returned"
  /\ CountOf(input, DOLLAR) = 1
  /\ result # NoText
  /\ SubSeq(result, 1, 2 * Len(DefaultTagLine)) = DefaultTagLine \o DefaultTagLine

----------------------------------------------------------------------------
(* the strings the builder called passes through _format_string *)
CallStrings ==
  CASE qcall \in {"fields_MA", "fields_MC"} ->
         {qargs.question} \cup {qargs.answers[i][1] : i \in 1..Len(qargs.answers)}
    [] qcall \in {"fields_ESS", "fields_SR"} -> {qargs.question, qargs.sample_ans}
    [] qcall \in {"fields_NUM", "fields_TF", "fields_FIL"} -> {qargs.question}
    [] OTHER -> {}

EscapedDollarPassed == \E s \in CallStrings : ContainsEscapedDollar(s)

(* the number of answers of the call marked True *)
MarkedTrue == Cardinality({i \in 1..Len(qargs.answers) : qargs.answers[i][2]})

(* C13 as stated: whenever a string given to one of the seven builders     *)
(* holds an escaped dollar, the call returns no list, leaves the decimal   *)
(* separator as it was and ends with the engine's NotImplementedError.     *)
C13_EveryBuilderRaisesEngineError ==
  EscapedDollarPassed
    => /\ outcome # "returned" /\ record = <<>>
       /\ options = last_sep
       /\ qpc = "idle" => outcome = "NotImplementedError"

(* C13 amended: the same for every builder, but for fields_MC only when    *)
(* exactly one answer is marked True; otherwise fields_MC ends with        *)
(* ValueError before it formats anything, escaped dollar or not, and       *)
(* returns no list and leaves the separator as well.                       *)
C13_BuildersRaiseEngineError ==
  /\ (EscapedDollarPassed /\ (qcall = "fields_MC" => MarkedTrue = 1))
       => /\ outcome # "returned" /\ record = <<>>
          /\ options = last_sep
          /\ qpc = "idle" => outcome = "NotImplementedError"
  /\ (qcall = "fields_MC" /\ MarkedTrue # 1)
       => /\ outcome # "returned" /\ record = <<>>
          /\ options = last_sep
          /\ qlocal = <<>>
          /\ qpc = "idle" => outcome = "ValueError"

(* fields_MA raises on its second answer, after the question and the first *)
(* answer were formatted, with the separator set to the point              *)
C13_Witness ==
  /\ qcall = "fields_MA" /\ qpc = "idle"
  /\ Len(qargs.answers) = 2
  /\ ~ContainsEscapedDollar(qargs.question)
  /\ ~ContainsEscapedDollar(qargs.answers[1][1])
  /\ ContainsEscapedDollar(qargs.answers[2][1])
  /\ Len(qlocal) = 2
  /\ outcome = "NotImplementedError" /\ record = <<>>
  /\ options = "."

(* the digits of x with sep in the place of the decimal point *)
Written(x, sep) == x.whole \o (IF x.float THEN <<sep>> \o x.frac ELSE <<>>)

OtherSeparator(sep) == IF sep = "," THEN "." ELSE ","

(* C14: the decimal separator is always the comma or the point, the comma  *)
(* before any call; set_decimal_separator with another argument ends with  *)
(* ValueError and leaves it, and with the comma or the point it sets it;   *)
(* a list returned by fields_NUM has its answer and its tolerance written  *)
(* with the separator of the last set_decimal_separator call that          *)
(* returned, and neither holds the other separator.                        *)
C14_SeparatorOption ==
  /\ options \in {",", "."}
  /\ calls = 0 => options = ","
  /\ options = last_sep
  /\ (qcall = "set_decimal_separator" /\ qargs.sep \notin {",", "."})
       => outcome = "ValueError"
  /\ (qcall = "set_decimal_separator" /\ qargs.sep \in {",", "."})
       => outcome = "returned" /\ options = qargs.sep
  /\ (qcall = "fields_NUM" /\ outcome = "returned")
       => /\ record[3] = Written(qargs.answer, last_sep)
          /\ record[4] = Written(qargs.tol, last_sep)
          /\ CountOf(record[3], OtherSeparator(last_sep)) = 0
          /\ CountOf(record[4], OtherSeparator(last_sep)) = 0

(* the third call: fields_NUM returns two floats written with the comma    *)
(* after the separator was set, the last call of set_decimal_separator     *)
(* that returned having the comma as argument                              *)
C14_Witness ==
  /\ calls = 3
  /\ qcall = "fields_NUM" /\ outcome = "returned"
  /\ options = ","
  /\ qargs.answer.float /\ qargs.tol.float
  /\ record[3] = <<"1", ",", "2", "5">>
  /\ record[4] = <<"0", ",", "0", "1">>

====
